---- MODULE Spec2Model ----
(***************************************************************************)
(* Model of the PDFToJSON form-schema extraction pipeline                  *)
(* (form_inputs.py, form_analyzer.py, main.py).                            *)
(*                                                                         *)
(* Text is a sequence of one-character strings.  Positions handed to the   *)
(* Python string operations (find, slices) are 0-based as in the source.   *)
(***************************************************************************)
EXTENDS Integers, Sequences, FiniteSets, TLC

VARIABLES
    pc,               \* position of the run
    answers,          \* raw answers typed at the interactive prompt
    inputs,           \* FormAnalyzer.inputs (Form Metadata)
    form_name_key,    \* canonical key computed by _build_prompt
    prompt,           \* compiled prompt (sequence of text pieces)
    pdf,              \* pages of the PDF document, in document order
    images,           \* convert_from_path result
    encoded_images,   \* _pdf_to_images accumulator
    content,          \* message content blocks built by analyze_pdf
    api_calls,        \* number of client.messages.create calls made
    api_outcome,      \* what the model call did: a reply or a raised error
    response_text,    \* the reply _extract_json was called with
    text,             \* _extract_json's working text
    result,           \* _extract_json's return value
    debug_file,       \* ./output/debug_response.txt
    ret               \* what analyze_pdf handed to its caller

vars == << pc, answers, inputs, form_name_key, prompt, pdf, images,
           encoded_images, content, api_calls, api_outcome, response_text,
           text, result, debug_file, ret >>

Min(S) == CHOOSE x \in S : \A y \in S : x <= y

(***************************************************************************)
(* Python str operations used by the source.                               *)
(***************************************************************************)
Whitespace == {" ", "\n"}

\* s[a:b] for 0 <= a <= b <= len(s)
Slice(s, a, b) == SubSeq(s, a + 1, b)

\* s.find(sub, start): lowest 0-based index >= start where sub occurs, else -1
find(s, sub, start) ==
    LET hits == { i \in start..(Len(s) - Len(sub)) :
                     SubSeq(s, i + 1, i + Len(sub)) = sub }
    IN  IF hits = {} THEN -1 ELSE Min(hits)

\* sub in s
In(sub, s) == find(s, sub, 0) # -1

\* s.startswith(c) for a one-character c
startswith(s, c) == Len(s) > 0 /\ s[1] = c

\* s.strip()
strip(s) ==
    LET keep == { i \in 1..Len(s) : s[i] \notin Whitespace }
    IN  IF keep = {} THEN << >>
        ELSE SubSeq(s, Min(keep), CHOOSE j \in keep : \A k \in keep : k <= j)

\* The backquote character is written BQ (a backquote cannot appear in a
\* string literal of this language).
BQ == "bq"
Fence == << BQ, BQ, BQ >>
JsonFence == Fence \o << "j", "s", "o", "n" >>

(***************************************************************************)
(* _extract_json, lines 212-222: fenced block extraction.                  *)
(***************************************************************************)
FenceStrip(t) ==
    IF In(JsonFence, t)
    THEN LET start == find(t, JsonFence, 0) + 7
             end   == find(t, Fence, start)
         IN  IF end > start THEN strip(Slice(t, start, end)) ELSE t
    ELSE IF In(Fence, t)
    THEN LET start == find(t, Fence, 0) + 3
             end   == find(t, Fence, start)
         IN  IF end > start THEN strip(Slice(t, start, end)) ELSE t
    ELSE t

(***************************************************************************)
(* _extract_json, lines 224-238: the brace-depth scan.  ScanBraces is the  *)
(* for loop from 0-based index i with the current brace_count; its value   *)
(* is end_pos.                                                             *)
(***************************************************************************)
RECURSIVE ScanBraces(_, _, _)
ScanBraces(t, i, brace_count) ==
    IF i >= Len(t) THEN 0
    ELSE LET char == t[i + 1]
         IN  IF char = "{" THEN ScanBraces(t, i + 1, brace_count + 1)
             ELSE IF char = "}"
             THEN IF brace_count - 1 = 0 THEN i + 1
                  ELSE ScanBraces(t, i + 1, brace_count - 1)
             ELSE ScanBraces(t, i + 1, brace_count)

BraceTruncate(t) ==
    IF startswith(t, "{")
    THEN LET end_pos == ScanBraces(t, 0, 0)
         IN  IF end_pos > 0 THEN Slice(t, 0, end_pos) ELSE t
    ELSE t

(***************************************************************************)
(* json.loads (line 241).  A recursive-descent reading of the text, as the *)
(* decoder does it; positions here are 1-based indexes of the next         *)
(* character.  A parsed value is kept as its kind and its canonical text   *)
(* (Python's None, the parse of a top-level null, has the empty text)      *)
(* (the value re-serialised without insignificant whitespace), so two      *)
(* parses are equal exactly when they read the same structure.  The texts  *)
(* of the model hold no backslash, sign, fraction, zero digit, true/false  *)
(* or non-finite literal, so those branches of the decoder are not drawn.  *)
(***************************************************************************)
Digits == {"1"}
Quote == "\""
Null == << "n", "u", "l", "l" >>

PyNone == [kind |-> "None", repr |-> << >>]
Fail == [ok |-> FALSE, next |-> 0, kind |-> "None", repr |-> << >>]
Parsed(n, k, r) == [ok |-> TRUE, next |-> n, kind |-> k, repr |-> r]

\* s[i:i+1], the empty string past the end
At(s, i) == IF i \in 1..Len(s) THEN s[i] ELSE ""

\* WHITESPACE.match(s, i).end()
SkipWs(s, i) ==
    LET non == { j \in i..Len(s) : s[j] \notin Whitespace }
    IN  IF non = {} THEN IF i > Len(s) THEN i ELSE Len(s) + 1 ELSE Min(non)

\* scanstring: s[i] is the opening quote; a raw control character inside
\* the string is rejected (strict mode)
ScanString(s, i) ==
    LET closes == { j \in (i + 1)..Len(s) : s[j] = Quote }
    IN  IF closes = {} THEN Fail
        ELSE LET j == Min(closes)
             IN  IF \E k \in (i + 1)..(j - 1) : s[k] = "\n" THEN Fail
                 ELSE Parsed(j + 1, "str", SubSeq(s, i, j))

ScanNumber(s, i) ==
    LET non == { j \in i..Len(s) : s[j] \notin Digits }
        end == IF non = {} THEN Len(s) + 1 ELSE Min(non)
    IN  Parsed(end, "int", SubSeq(s, i, end - 1))

RECURSIVE ScanOnce(_, _)
RECURSIVE Members(_, _, _)
RECURSIVE Elements(_, _, _)

\* JSONObject's while loop: s[i] is the opening quote of the next key,
\* acc the canonical text of the members read so far
Members(s, i, acc) ==
    LET key == ScanString(s, i)
    IN  IF ~key.ok THEN Fail
        ELSE LET colon == SkipWs(s, key.next)
             IN  IF At(s, colon) # ":" THEN Fail
                 ELSE LET value == ScanOnce(s, SkipWs(s, colon + 1))
                      IN  IF ~value.ok THEN Fail
                          ELSE LET end  == SkipWs(s, value.next)
                                   more == acc \o key.repr \o << ":" >> \o value.repr
                               IN  IF At(s, end) = "}"
                                   THEN Parsed(end + 1, "dict", more \o << "}" >>)
                                   ELSE IF At(s, end) # "," THEN Fail
                                   ELSE LET nxt == SkipWs(s, end + 1)
                                        IN  IF At(s, nxt) # Quote THEN Fail
                                            ELSE Members(s, nxt, more \o << "," >>)

\* JSONObject: s[i - 1] is the opening brace
JSONObject(s, i) ==
    LET first == SkipWs(s, i)
    IN  IF At(s, first) = "}" THEN Parsed(first + 1, "dict", << "{", "}" >>)
        ELSE IF At(s, first) # Quote THEN Fail
        ELSE Members(s, first, << "{" >>)

\* JSONArray's while loop: a value is expected at i
Elements(s, i, acc) ==
    LET value == ScanOnce(s, i)
    IN  IF ~value.ok THEN Fail
        ELSE LET end == SkipWs(s, value.next)
             IN  IF At(s, end) = "]"
                 THEN Parsed(end + 1, "list", acc \o value.repr \o << "]" >>)
                 ELSE IF At(s, end) # "," THEN Fail
                 ELSE Elements(s, SkipWs(s, end + 1), acc \o value.repr \o << "," >>)

\* JSONArray: s[i - 1] is the opening bracket
JSONArray(s, i) ==
    LET first == SkipWs(s, i)
    IN  IF At(s, first) = "]" THEN Parsed(first + 1, "list", << "[", "]" >>)
        ELSE Elements(s, first, << "[" >>)

\* the scanner's _scan_once
ScanOnce(s, i) ==
    LET nextchar == At(s, i)
    IN  IF nextchar = Quote THEN ScanString(s, i)
        ELSE IF nextchar = "{" THEN JSONObject(s, i + 1)
        ELSE IF nextchar = "[" THEN JSONArray(s, i + 1)
        ELSE IF nextchar = "n" /\ i + 3 <= Len(s) /\ SubSeq(s, i, i + 3) = Null
        THEN Parsed(i + 4, "None", Null)
        ELSE IF nextchar \in Digits THEN ScanNumber(s, i)
        ELSE Fail

\* JSONDecoder.decode: one value, then nothing but whitespace
json_loads(s) ==
    LET obj == ScanOnce(s, SkipWs(s, 1))
    IN  IF ~obj.ok THEN Fail
        ELSE IF SkipWs(s, obj.next) # Len(s) + 1 THEN Fail
        ELSE obj

(***************************************************************************)
(* _extract_json as a whole (lines 207-248): the value returned, and what  *)
(* it leaves in the debug file given what the file held before.            *)
(***************************************************************************)
NoFile == [written |-> FALSE, data |-> << >>]
NoReturn == [outcome |-> "none", value |-> PyNone]

ExtractText(response) == BraceTruncate(FenceStrip(strip(response)))

\* the try/except of lines 240-248 on the text to parse
LoadsReturn(t) ==
    LET r == json_loads(t)
    IN  IF r.ok /\ r.kind # "None" THEN [kind |-> r.kind, repr |-> r.repr]
        ELSE PyNone

\* a plausible slip: the working text written instead of the reply
DebugPayloadWorkingText(response, t) == t

\* what line 246 writes
DebugPayload(response, t) == response

LoadsDebug(response, t, before) ==
    IF json_loads(t).ok THEN before
    ELSE [written |-> TRUE, data |-> DebugPayload(response, t)]

(***************************************************************************)
(* The replies a model can send: a body (a JSON value, or a JSON object    *)
(* cut short or with one character lost), optionally inside a fence, with  *)
(* optional prose and whitespace around it.                                *)
(***************************************************************************)
MaxDepth == 2

Str(c) == << Quote >> \o c \o << Quote >>
Obj(k, v) == << "{" >> \o Str(k) \o << ":" >> \o v \o << "}" >>

StringContents == { << "}" >>, << "{" >>, Fence \o << "x" >> \o Fence }
Scalars == { << "1" >>, Null } \cup { Str(c) : c \in StringContents }

RECURSIVE Values(_)
Values(d) ==
    IF d = 0 THEN Scalars \cup { << "{", "}" >>, << "[", "]" >> }
    ELSE Values(d - 1) \cup { Obj(<< "a" >>, v) : v \in Values(d - 1) }

TwoMembers ==
    << "{" >> \o Str(<< "a" >>) \o << ":", "1", ",", " " >>
              \o Str(<< "b" >>) \o << ":", " " >> \o Str(<< "}" >>) \o << "}" >>

Objects == { v \in Values(MaxDepth) : v[1] = "{" } \cup { TwoMembers }

Prefixes(o) == { SubSeq(o, 1, k) : k \in 1..(Len(o) - 1) }
Deletions(o) == { SubSeq(o, 1, k - 1) \o SubSeq(o, k + 1, Len(o)) : k \in 1..Len(o) }

Bodies ==
    Values(MaxDepth) \cup Objects
        \cup UNION { Prefixes(o) \cup Deletions(o) : o \in Objects }

Leading == { << >>, << " " >>, << "x", ":", "\n" >> }
Trailing == { << >>, << "\n" >>, << " ", "x", "." >> }
FenceOpen == { << >>, JsonFence \o << "\n" >>, Fence \o << "\n" >> }
FenceClose == { << >>, << "\n" >> \o Fence }

Replies ==
    { pre \o fo \o b \o fc \o post :
        pre \in Leading, fo \in FenceOpen, b \in Bodies,
        fc \in FenceClose, post \in Trailing }

(***************************************************************************)
(* SpecExtract: _extract_json applied to every reply, one step per stage   *)
(* of the function.                                                        *)
(***************************************************************************)
Idle ==
    /\ answers = << >>
    /\ inputs = << >>
    /\ form_name_key = << >>
    /\ prompt = << >>
    /\ pdf = << >>
    /\ images = << >>
    /\ encoded_images = << >>
    /\ content = << >>
    /\ api_calls = 0
    /\ api_outcome = "none"
    /\ ret = NoReturn

InitExtract ==
    /\ Idle
    /\ pc = "strip"
    /\ response_text \in Replies
    /\ text = << >>
    /\ result = PyNone
    /\ debug_file = NoFile

Frozen ==
    UNCHANGED << answers, inputs, form_name_key, prompt, pdf, images,
                 encoded_images, content, api_calls, api_outcome, ret >>

\* line 210
ExtractStrip ==
    /\ pc = "strip"
    /\ text' = strip(response_text)
    /\ pc' = "fence"
    /\ UNCHANGED << response_text, result, debug_file >>
    /\ Frozen

\* lines 212-222
ExtractFence ==
    /\ pc = "fence"
    /\ text' = FenceStrip(text)
    /\ pc' = "brace"
    /\ UNCHANGED << response_text, result, debug_file >>
    /\ Frozen

\* lines 224-238
ExtractBrace ==
    /\ pc = "brace"
    /\ text' = BraceTruncate(text)
    /\ pc' = "loads"
    /\ UNCHANGED << response_text, result, debug_file >>
    /\ Frozen

\* lines 240-248
ExtractLoads ==
    /\ pc = "loads"
    /\ result' = LoadsReturn(text)
    /\ debug_file' = LoadsDebug(response_text, text, debug_file)
    /\ pc' = "extracted"
    /\ UNCHANGED << response_text, text >>
    /\ Frozen

NextExtract == ExtractStrip \/ ExtractFence \/ ExtractBrace \/ ExtractLoads

SpecExtract == InitExtract /\ [][NextExtract]_vars

(***************************************************************************)
(* Form names.  Characters outside ASCII are written by name: E_ACUTE is   *)
(* U+00E9 (a lowercase letter) and CAP_E_ACUTE is U+00C9.                  *)
(***************************************************************************)
E_ACUTE == "e-acute"
CAP_E_ACUTE == "E-acute"

AsciiUpper == << "A", "B", "C", "D", "E", "F", "G", "H", "I", "J", "K", "L", "M",
                 "N", "O", "P", "Q", "R", "S", "T", "U", "V", "W", "X", "Y", "Z" >>
AsciiLower == << "a", "b", "c", "d", "e", "f", "g", "h", "i", "j", "k", "l", "m",
                 "n", "o", "p", "q", "r", "s", "t", "u", "v", "w", "x", "y", "z" >>
AsciiDigits == { "0", "1", "2", "3", "4", "5", "6", "7", "8", "9" }

Range(f) == { f[i] : i \in DOMAIN f }

\* str.lower(), character by character
LowerChar(c) ==
    IF c \in Range(AsciiUpper)
    THEN AsciiLower[CHOOSE i \in 1..26 : AsciiUpper[i] = c]
    ELSE IF c = CAP_E_ACUTE THEN E_ACUTE
    ELSE c

lower(s) == [i \in 1..Len(s) |-> LowerChar(s[i])]

\* str.replace(old, new) for one-character old and new
replace(s, old, new) == [i \in 1..Len(s) |-> IF s[i] = old THEN new ELSE s[i]]

\* str.isalnum() of one character: any Unicode letter or digit character
isalnum(c) ==
    c \in Range(AsciiUpper) \cup Range(AsciiLower) \cup AsciiDigits
          \cup { E_ACUTE, CAP_E_ACUTE }

\* line 199: ''.join(c for c in s if c.isalnum() or c == '_')
RECURSIVE JoinKept(_)
JoinKept(s) ==
    IF s = << >> THEN << >>
    ELSE (IF isalnum(Head(s)) \/ Head(s) = "_" THEN << Head(s) >> ELSE << >>)
         \o JoinKept(Tail(s))

\* a plausible slip: the hyphen replacement forgotten
KeyWithoutHyphens(form_name) ==
    JoinKept(replace(lower(form_name), " ", "_"))

\* _build_prompt, lines 196-199: the canonical key of a form name
Key(form_name) ==
    JoinKept(replace(replace(lower(form_name), " ", "_"), "-", "_"))

(***************************************************************************)
(* FORM_ANALYSIS_PROMPT (lines 10-161) as the pieces str.format reads: a   *)
(* replacement field, an escaped brace, or a run of literal text.  The     *)
(* envelope (lines 18-36) and the header line 44 are kept piece by piece;  *)
(* a literal run that holds no replacement field is one piece, the long    *)
(* ones named by their headings.                                           *)
(***************************************************************************)
Placeholders == { "{form_name}", "{form_name_key}", "{category}" }

FORM_ANALYSIS_PROMPT ==
    << "Analyze this PDF form ... **User Provided Info:**\n- Form Name: ",
       "{form_name}", "\n- Category: ", "{category}",
       "\n\n## OUTPUT FORMAT\n\n", "{{", "\n  \"", "{form_name_key}", "\": ", "{{",
       "\n    \"settings\": ", "{{", "}}", ",\n    \"content\": ", "{{",
       "\n      \"", "{form_name_key}", "\": ", "{{",
       "\n        \"form_name\": \"", "{form_name_key}",
       "\",\n        \"submission_url\": \"", "{{", "{{",
       "%/processors/forms/pdf_form_email", "}}", "}}",
       "\",\n        \"subject\": \"Form Submission: ", "{form_name}",
       "\",\n        \"confirmation\": ...,\n        \"pdf\": \"/custom/pdfs/",
       "{form_name_key}", ".pdf\",\n        \"category\": \"", "{category}",
       "\",\n        \"type\": \"intake\",\n        \"fields\": [ ... ]\n      ",
       "}}", "\n    ", "}}", "\n  ", "}}", "\n", "}}",
       "\n\n---\n\n## REQUIRED WRAPPER ... \"label\": \"<h1>", "{form_name}",
       "</h1>\", \"type\": \"label\"",
       "}}", ",\n ... ## REQUIRED CLOSING ... ## FIELD TYPES ... ## LAYOUT GROUPS ... ## CRITICAL RULES ... generate the complete JSON structure." >>

\* str.format on one piece
FormatPiece(piece, kwargs) ==
    IF piece = "{{" THEN << "{" >>
    ELSE IF piece = "}}" THEN << "}" >>
    ELSE IF piece \in Placeholders THEN kwargs[piece]
    ELSE << piece >>

RECURSIVE Format(_, _)
Format(template, kwargs) ==
    IF template = << >> THEN << >>
    ELSE FormatPiece(Head(template), kwargs) \o Format(Tail(template), kwargs)

\* a plausible slip: the raw form name passed where the key belongs
FormatArgsRawName(name, key, cat) ==
    [ p \in Placeholders |-> IF p = "{category}" THEN cat ELSE name ]

\* lines 201-205: the keyword arguments handed to str.format
FormatArgs(name, key, cat) ==
    [ p \in Placeholders |->
        IF p = "{form_name}" THEN name
        ELSE IF p = "{form_name_key}" THEN key
        ELSE cat ]

\* _build_prompt, lines 191-205
BuildPrompt(meta) ==
    Format(FORM_ANALYSIS_PROMPT,
           FormatArgs(meta.form_name, Key(meta.form_name), meta.category))

(***************************************************************************)
(* SpecPrompt: the operator's answers go through prompt_for_form_inputs    *)
(* and the Form Metadata it returns through _build_prompt.                 *)
(***************************************************************************)
MaxNameLen == 3

NameAlphabet == { "A", "a", "1", " ", "-", "!", "_", E_ACUTE }

RECURSIVE Words(_, _)
Words(alphabet, n) ==
    IF n = 0 THEN { << >> }
    ELSE Words(alphabet, n - 1)
         \cup { Append(w, c) : w \in Words(alphabet, n - 1), c \in alphabet }

DentalName ==
    << "D", "e", "n", "t", "a", "l", " ", "P", "a", "t", "i", "e", "n", "t", " ",
       "I", "n", "t", "a", "k", "e", " ", "-", " ", "v", "2", "!" >>

FormNameAnswers == Words(NameAlphabet, MaxNameLen) \cup { DentalName }
CategoryAnswers == { << " " >>, << "I", "n" >>, << "a", " " >> }

InitPrompt ==
    /\ pc = "prompt_inputs"
    /\ answers \in [form_name : FormNameAnswers, category : CategoryAnswers]
    /\ inputs = << >>
    /\ form_name_key = << >>
    /\ prompt = << >>
    /\ pdf = << >>
    /\ images = << >>
    /\ encoded_images = << >>
    /\ content = << >>
    /\ api_calls = 0
    /\ api_outcome = "none"
    /\ response_text = << >>
    /\ text = << >>
    /\ result = PyNone
    /\ debug_file = NoFile
    /\ ret = NoReturn

\* form_inputs.py, prompt_for_form_inputs
PromptForFormInputs ==
    /\ pc = "prompt_inputs"
    /\ LET form_name == strip(answers.form_name)
           category  == strip(answers.category)
       IN  IF form_name = << >> \/ category = << >>
           THEN /\ pc' = "value_error"
                /\ inputs' = inputs
           ELSE /\ pc' = "build_prompt"
                /\ inputs' = [form_name |-> form_name, category |-> category]
    /\ UNCHANGED << answers, form_name_key, prompt, pdf, images, encoded_images,
                    content, api_calls, api_outcome, response_text, text,
                    result, debug_file, ret >>

\* FormAnalyzer._build_prompt
BuildPromptStep ==
    /\ pc = "build_prompt"
    /\ form_name_key' = Key(inputs.form_name)
    /\ prompt' = BuildPrompt(inputs)
    /\ pc' = "prompted"
    /\ UNCHANGED << answers, inputs, pdf, images, encoded_images, content,
                    api_calls, api_outcome, response_text, text, result,
                    debug_file, ret >>

NextPrompt == PromptForFormInputs \/ BuildPromptStep

SpecPrompt == InitPrompt /\ [][NextPrompt]_vars

(***************************************************************************)
(* Spec: one run of FormAnalyzer.analyze_pdf and of main's check of what   *)
(* it returns.                                                             *)
(***************************************************************************)
MaxPages == 3

PageContents == { "pageA", "pageB" }
Documents == Words(PageContents, MaxPages) \ { << >> }

Metadata ==
    { [form_name |-> << "A", " ", "1" >>, category |-> << "I", "n" >>],
      [form_name |-> << "a", "-", E_ACUTE >>, category |-> << "a" >>] }

\* what client.messages.create can do: answer with a text, or raise
ModelCallErrors ==
    { "AuthenticationError", "APIConnectionError", "RateLimitError",
      "InternalServerError" }
OtherErrors == { "KeyboardInterrupt" }

ModelReplies ==
    { Obj(<< "a" >>, << "1" >>),
      << "x", ":", "\n" >> \o JsonFence \o << "\n" >> \o Obj(<< "a" >>, << "{", "}" >>)
          \o << "\n" >> \o Fence,
      Obj(<< "a" >>, Str(<< "}" >>)),
      << "{", "}" >>,
      << "[", "]" >>,
      << "{", Quote, "a", Quote, ":" >> }

\* convert_from_path(pdf_path, dpi=150), line 174
convert_from_path(document) ==
    [i \in 1..Len(document) |-> [page |-> document[i], dpi |-> 150]]

\* lines 179-185: JPEG at quality 85, then standard base64
EncodeImage(img) == [b64 |-> [jpeg |-> img, quality |-> 85]]

\* a plausible slip: the new element put in front
Prepend(list, x) == << x >> \o list

\* list.append, lines 186, 260 and 270
ListAppend(list, x) == Append(list, x)

\* lines 260-267
ImageBlock(img_data) ==
    [type |-> "image",
     source |-> [type |-> "base64", media_type |-> "image/jpeg", data |-> img_data]]

\* lines 270-273
TextBlock(t) == [type |-> "text", text |-> t]

\* a plausible slip: only the HTTP status errors caught
CaughtStatusOnly(e) ==
    e \in { "AuthenticationError", "RateLimitError", "InternalServerError" }

\* line 295: except anthropic.APIError, the base class of the SDK's errors
Caught(e) == e \in ModelCallErrors \cup { "APIError" }

Init ==
    /\ pc = "convert"
    /\ answers = << >>
    /\ inputs \in Metadata
    /\ form_name_key = << >>
    /\ prompt = << >>
    /\ pdf \in Documents
    /\ images = << >>
    /\ encoded_images = << >>
    /\ content = << >>
    /\ api_calls = 0
    /\ api_outcome = "none"
    /\ response_text = << >>
    /\ text = << >>
    /\ result = PyNone
    /\ debug_file = NoFile
    /\ ret = NoReturn

\* _pdf_to_images, lines 173-177
ConvertPdf ==
    /\ pc = "convert"
    /\ images' = convert_from_path(pdf)
    /\ encoded_images' = << >>
    /\ pc' = "encode"
    /\ UNCHANGED << answers, inputs, form_name_key, prompt, pdf, content,
                    api_calls, api_outcome, response_text, text, result,
                    debug_file, ret >>

\* _pdf_to_images, one turn of the loop of lines 178-187
EncodePage ==
    /\ pc = "encode"
    /\ Len(encoded_images) < Len(images)
    /\ encoded_images' =
          ListAppend(encoded_images, EncodeImage(images[Len(encoded_images) + 1]))
    /\ UNCHANGED << pc, answers, inputs, form_name_key, prompt, pdf, images,
                    content, api_calls, api_outcome, response_text, text,
                    result, debug_file, ret >>

\* _pdf_to_images returns (line 189); analyze_pdf starts its content (line 256)
ReturnImages ==
    /\ pc = "encode"
    /\ Len(encoded_images) = Len(images)
    /\ content' = << >>
    /\ pc' = "content"
    /\ UNCHANGED << answers, inputs, form_name_key, prompt, pdf, images,
                    encoded_images, api_calls, api_outcome, response_text,
                    text, result, debug_file, ret >>

\* analyze_pdf, one turn of the loop of lines 259-267
AddImageBlock ==
    /\ pc = "content"
    /\ Len(content) < Len(encoded_images)
    /\ content' = ListAppend(content, ImageBlock(encoded_images[Len(content) + 1]))
    /\ UNCHANGED << pc, answers, inputs, form_name_key, prompt, pdf, images,
                    encoded_images, api_calls, api_outcome, response_text,
                    text, result, debug_file, ret >>

\* analyze_pdf, lines 269-273
AddPrompt ==
    /\ pc = "content"
    /\ Len(content) = Len(encoded_images)
    /\ form_name_key' = Key(inputs.form_name)
    /\ prompt' = BuildPrompt(inputs)
    /\ content' = ListAppend(content, TextBlock(BuildPrompt(inputs)))
    /\ pc' = "call"
    /\ UNCHANGED << answers, inputs, pdf, images, encoded_images, api_calls,
                    api_outcome, response_text, text, result, debug_file, ret >>

\* analyze_pdf, lines 279-286: the one model call; it answers or raises
CallModel ==
    /\ pc = "call"
    /\ api_calls' = api_calls + 1
    /\ \/ \E reply \in ModelReplies :
            /\ api_outcome' = "reply"
            /\ response_text' = reply
            /\ pc' = "response"
       \/ \E e \in ModelCallErrors \cup OtherErrors :
            /\ api_outcome' = e
            /\ response_text' = response_text
            /\ pc' = "except"
    /\ UNCHANGED << answers, inputs, form_name_key, prompt, pdf, images,
                    encoded_images, content, text, result, debug_file, ret >>

\* analyze_pdf, lines 288-293: return self._extract_json(response_text)
ReturnExtracted ==
    /\ pc = "response"
    /\ text' = ExtractText(response_text)
    /\ result' = LoadsReturn(ExtractText(response_text))
    /\ debug_file' = LoadsDebug(response_text, ExtractText(response_text), debug_file)
    /\ ret' = [outcome |-> "returned", value |-> LoadsReturn(ExtractText(response_text))]
    /\ pc' = "returned"
    /\ UNCHANGED << answers, inputs, form_name_key, prompt, pdf, images,
                    encoded_images, content, api_calls, api_outcome,
                    response_text >>

\* analyze_pdf, lines 295-297: the handler, or the error leaves analyze_pdf
HandleError ==
    /\ pc = "except"
    /\ IF Caught(api_outcome)
       THEN /\ ret' = [outcome |-> "returned", value |-> PyNone]
            /\ pc' = "returned"
       ELSE /\ ret' = [outcome |-> "raised", value |-> PyNone]
            /\ pc' = "raised"
    /\ UNCHANGED << answers, inputs, form_name_key, prompt, pdf, images,
                    encoded_images, content, api_calls, api_outcome,
                    response_text, text, result, debug_file >>

\* Python truth value of a parsed value: None and empty containers are false
Falsy(v) == v.kind = "None" \/ v.repr \in { << "{", "}" >>, << "[", "]" >>, << Quote, Quote >> }

\* main, lines 63-73: exit(1) on a false value, else save the JSON
MainCheck ==
    /\ pc = "returned"
    /\ pc' = IF Falsy(ret.value) THEN "exit_1" ELSE "saved"
    /\ UNCHANGED << answers, inputs, form_name_key, prompt, pdf, images,
                    encoded_images, content, api_calls, api_outcome,
                    response_text, text, result, debug_file, ret >>

Next ==
    \/ ConvertPdf
    \/ EncodePage
    \/ ReturnImages
    \/ AddImageBlock
    \/ AddPrompt
    \/ CallModel
    \/ ReturnExtracted
    \/ HandleError
    \/ MainCheck

Spec == Init /\ [][Next]_vars

(***************************************************************************)
(* Properties of _extract_json, checked under SpecExtract.                 *)
(***************************************************************************)
\* the reply is a bare valid JSON object: strict parsing of the whole reply
\* succeeds and gives an object
BareValidObject(r) == json_loads(r).ok /\ json_loads(r).kind = "dict"

Extracted == pc = "extracted"

\* C1: on a reply that is already a bare valid JSON object, _extract_json
\* returns exactly what strict parsing of the reply gives, whatever its string
\* values contain, and writes no debug file.
C1_CleanInputIdentity ==
    (Extracted /\ BareValidObject(response_text))
        => (result = LoadsReturn(response_text) /\ debug_file = NoFile)

C3_FencedObject ==
    Extracted =>
        \A pre \in Leading, tag \in { JsonFence, Fence }, o \in Objects, post \in Trailing :
            (/\ ~In(Fence, o)
             /\ response_text = pre \o tag \o << "\n" >> \o o \o << "\n" >> \o Fence \o post)
                => result = LoadsReturn(o)

\* C4: a reply that begins, after trimming, with a complete valid JSON object
\* followed by trailing text and holds no fence: the brace-depth scan cuts the
\* text to exactly that object and its parse is returned; and when the depth
\* never returns to zero the text is left as it was.
C4_TrailingCommentary ==
    Extracted =>
        /\ \A o \in Objects, post \in Trailing :
              (~In(Fence, response_text) /\ strip(response_text) = strip(o \o post))
                  => (text = o /\ result = LoadsReturn(o))
        /\ LET fenced == FenceStrip(strip(response_text))
           IN  (startswith(fenced, "{") /\ ScanBraces(fenced, 0, 0) = 0)
                  => text = fenced

\* C10: every outcome of _extract_json is a parsed mapping with no debug file
\* written, or None with the debug file holding the reply; a reply that parses
\* to something other than an object is never returned.
C10_MappingOrAbsence ==
    Extracted =>
        \/ (result.kind = "dict" /\ debug_file = NoFile)
        \/ (result = PyNone /\ debug_file = [written |-> TRUE, data |-> response_text])

(***************************************************************************)
(* Properties of the canonical key and the prompt, checked under           *)
(* SpecPrompt.                                                             *)
(***************************************************************************)
Prompted == pc = "prompted"

Chars(S, s) == Cardinality({ i \in 1..Len(s) : s[i] \in S })

\* number of places where sub occurs in s
Count(sub, s) ==
    Cardinality({ i \in 0..(Len(s) - Len(sub)) : SubSeq(s, i + 1, i + Len(sub)) = sub })

DentalKeyInSpec ==
    << "d", "e", "n", "t", "a", "l", "_", "p", "a", "t", "i", "e", "n", "t", "_",
       "i", "n", "t", "a", "k", "e", "_", "v", "2" >>

DentalKeyInCode ==
    << "d", "e", "n", "t", "a", "l", "_", "p", "a", "t", "i", "e", "n", "t", "_",
       "i", "n", "t", "a", "k", "e", "_", "_", "_", "v", "2" >>

\* C5 as stated: the form name "Dental Patient Intake - v2!" yields the key
\* "dental_patient_intake_v2".
C5_SpecExpectedKey ==
    (Prompted /\ inputs.form_name = DentalName) => form_name_key = DentalKeyInSpec

\* C5, amended: every space, hyphen and underscore of the form name is one
\* underscore of the key (runs are not collapsed), so the form name
\* "Dental Patient Intake - v2!" yields "dental_patient_intake___v2".
C5_EveryUnderscoreKept ==
    Prompted =>
        /\ Chars({ "_" }, form_name_key) = Chars({ " ", "-", "_" }, inputs.form_name)
        /\ inputs.form_name = DentalName => form_name_key = DentalKeyInCode

\* C5's case: the key of "Dental Patient Intake - v2!" has been computed and
\* holds five underscores.
C5_Witness ==
    /\ Prompted
    /\ inputs.form_name = DentalName
    /\ Chars({ "_" }, form_name_key) = 5

\* C6: the canonical key holds only characters of [a-z0-9_], every other
\* character of the form name (non-ASCII letters included) being stripped, and
\* the key of the key is the key.
C6_AsciiKey ==
    Prompted =>
        /\ \A i \in 1..Len(form_name_key) :
              form_name_key[i] \in Range(AsciiLower) \cup AsciiDigits \cup { "_" }
        /\ Key(form_name_key) = form_name_key

KeySlots == { k \in 1..Len(FORM_ANALYSIS_PROMPT) : FORM_ANALYSIS_PROMPT[k] = "{form_name_key}" }
CategorySlots == { k \in 1..Len(FORM_ANALYSIS_PROMPT) : FORM_ANALYSIS_PROMPT[k] = "{category}" }

\* the value stands in the prompt between the template text before and after
\* replacement field k
InPosition(k, value) ==
    In(<< FORM_ANALYSIS_PROMPT[k - 1] >> \o value \o << FORM_ANALYSIS_PROMPT[k + 1] >>,
       prompt)

\* C7 as stated: the prompt holds the canonical key exactly once and the
\* category exactly once, and no unresolved placeholder.
C7_ExactlyOnce ==
    Prompted =>
        /\ Count(form_name_key, prompt) = 1
        /\ Count(inputs.category, prompt) = 1
        /\ \A i \in 1..Len(prompt) : prompt[i] \notin Placeholders

\* C7, amended: the prompt holds the canonical key verbatim at each of the four
\* {form_name_key} positions of the template and the category at each of its
\* two {category} positions, and no placeholder of the template is left.
C7_EveryPosition ==
    Prompted =>
        /\ Cardinality(KeySlots) = 4
        /\ \A k \in KeySlots : InPosition(k, form_name_key)
        /\ Cardinality(CategorySlots) = 2
        /\ \A k \in CategorySlots : InPosition(k, inputs.category)
        /\ \A i \in 1..Len(prompt) : prompt[i] \notin Placeholders

\* C7's case: a prompt compiled for a form name that differs from its key;
\* the key stands in it four times and the category twice.
C7_Witness ==
    /\ Prompted
    /\ form_name_key # << >>
    /\ form_name_key # inputs.form_name
    /\ Count(form_name_key, prompt) = 4
    /\ Count(inputs.category, prompt) = 2

(***************************************************************************)
(* Properties of analyze_pdf, checked under Spec.                          *)
(***************************************************************************)
ContentBuilt == pc \notin { "convert", "encode", "content" }

\* C8: a PDF of N pages gives N encoded images, the i-th of page i, and the
\* message content is N image blocks (base64, image/jpeg) in page order
\* followed by one text block, the compiled prompt, as the last block.
C8_PageOrder ==
    /\ pc \notin { "convert", "encode" } =>
          /\ Len(encoded_images) = Len(pdf)
          /\ \A i \in 1..Len(pdf) : encoded_images[i].b64.jpeg.page = pdf[i]
    /\ ContentBuilt =>
          /\ Len(content) = Len(pdf) + 1
          /\ \A i \in 1..Len(pdf) :
                /\ content[i].type = "image"
                /\ content[i].source.type = "base64"
                /\ content[i].source.media_type = "image/jpeg"
                /\ content[i].source.data.b64.jpeg.page = pdf[i]
          /\ content[Len(pdf) + 1].type = "text"
          /\ content[Len(pdf) + 1].text = prompt
          /\ prompt # << >>

\* C8's case: a three-page document with differing pages, its content built
\* and about to be sent.
C8_Witness ==
    /\ pc = "call"
    /\ Len(pdf) = 3
    /\ pdf[1] # pdf[3]
    /\ Len(content) = 4
    /\ content[3].source.data.b64.jpeg.page = pdf[3]

====
